---- MODULE Spec2Model ----
(***************************************************************************)
(* FocusFlow: the Express + PostgreSQL backend (index.ts, routes/tasks.ts, *)
(* routes/notes.ts, routes/projects.ts, lib/db.ts) and the parts of the    *)
(* React frontend that decide what the user sees (api/client.ts, the React *)
(* Query hooks, the Tasks page filter, the LLM suggestion helper).         *)
(*                                                                         *)
(* Spec      the backend: requests walk the Express stack, every await is  *)
(*           a step, the database enforces the constraints of initDb.      *)
(* SpecConc  the backend under two connections.                            *)
(* SpecDb    the schema of initDb alone, driven by SQL statements.         *)
(* SpecQuery the React Query hooks against the backend's statements.       *)
(* SpecPage  the Tasks page: its memoized dates and its filter.            *)
(* SpecFetch authenticatedFetch, await by await.                           *)
(* SpecLlm   generateTaskSuggestions (the Gemini helper), await by await.  *)
(* SpecAdd   a task's due date from the form to the list the page filters. *)
(* SpecHook  the hand-written hooks of hooks/useApi.ts and their mutations.*)
(* SpecHeur  the heuristic generateTaskSuggestions of utils/aiSuggestions. *)
(***************************************************************************)
EXTENDS Integers, Sequences, FiniteSets, TLC

----------------------------------------------------------------------------
(* Values                                                                  *)

\* JavaScript undefined / null for a numeric field (project_id, :id).
UNDEF == -2
NULL == -1
\* JavaScript undefined / null for a string field.
UNDEFSTR == "<undefined>"
NULLSTR == "<null>"

\* Clerk user ids of the model, and the userId of a request without session.
Users == {"u1", "u2"}
NoUserId == NULLSTR

\* INSERT statements the database takes in a behaviour, all tables together.
MaxRows == 2

\* The ids the SERIAL sequences hand out within that bound.
Ids == 1..MaxRows

\* The ids requests name, as :id and as project_id: the first row of a table,
\* which any user may come to own.
ParamIds == {1}

Resources == {"tasks", "notes", "projects"}
Methods == {"GET", "POST", "PUT", "DELETE"}

\* !x of JavaScript for the strings of the model.
FalsyStr(s) == s \in {UNDEFSTR, NULLSTR, ""}
\* !x of JavaScript for the numbers of the model.
FalsyNum(n) == n \in {UNDEF, NULL, 0}

VARIABLES
  db,       \* the PostgreSQL database: one set of rows per table, the sequences
  conns,    \* per connection: the request in flight and where it awaits; at
            \* most one request is in flight per connection
  out,      \* the response on the wire (NoOut: none); it is delivered to the
            \* client before the server takes its next step
  net,      \* the HTTP messages between a React Query client and the backend
  rq,       \* the QueryClient cache entry of one hook, and its mutations
  page,     \* the Tasks page: clock, memoized today, tab, selected project
  call,     \* one authenticatedFetch call
  llm,      \* one generateTaskSuggestions call
  add,      \* one task being added: from the form to the list the page filters
  hook,     \* the state of one hand-written hook (useTasks, useNotes)
  heur      \* one call of the heuristic generateTaskSuggestions

apiVars == <<db, conns, out>>
clientVars == <<net, rq, page, call, llm, add, hook, heur>>
vars == <<db, conns, out, net, rq, page, call, llm, add, hook, heur>>

\* The value of a variable in the specifications that do not drive it.
Unused == [pc |-> "unused"]

ServerUnused == conns = Unused /\ out = Unused
UiUnused == add = Unused /\ hook = Unused /\ heur = Unused
ClientUnused ==
  /\ net = Unused /\ rq = Unused /\ page = Unused /\ call = Unused /\ llm = Unused
  /\ UiUnused

----------------------------------------------------------------------------
(* lib/db.ts: the schema of initDb and the statements the routers run      *)

IdsOf(rows) == {r.id : r \in rows}

EmptyDb ==
  [focus_sessions |-> {}, notes |-> {}, projects |-> {}, purged |-> {},
   seq |-> [focus_sessions |-> 1, notes |-> 1, projects |-> 1, tags |-> 1,
            tasks |-> 1],
   tags |-> {}, task_tags |-> {}, tasks |-> {}, users |-> {}]

\* DELETE FROM tasks with task_tags.task_id not cascading.
DeleteTasksNoCascade(d, T) ==
  [d EXCEPT !.tasks = @ \ T,
            !.focus_sessions =
               {IF f.task_id \in IdsOf(T) THEN [f EXCEPT !.task_id = NULL] ELSE f
                  : f \in @}]

\* tasks(id) is referenced by focus_sessions.task_id ON DELETE SET NULL and by
\* task_tags.task_id ON DELETE CASCADE.
DeleteTasks(d, T) ==
  [d EXCEPT !.tasks = @ \ T,
            !.focus_sessions =
               {IF f.task_id \in IdsOf(T) THEN [f EXCEPT !.task_id = NULL] ELSE f
                  : f \in @},
            !.task_tags = {tt \in @ : tt.task_id \notin IdsOf(T)}]

\* tags(id) is referenced by task_tags.tag_id ON DELETE CASCADE.
DeleteTags(d, G) ==
  [d EXCEPT !.tags = @ \ G,
            !.task_tags = {tt \in @ : tt.tag_id \notin IdsOf(G)}]

DeleteNotes(d, N) == [d EXCEPT !.notes = @ \ N]

DeleteSessions(d, F) == [d EXCEPT !.focus_sessions = @ \ F]

\* projects(id) is referenced by tasks.project_id and notes.project_id, both
\* ON DELETE CASCADE.
DeleteProjects(d, P) ==
  LET d1 == [d EXCEPT !.projects = @ \ P]
      d2 == DeleteTasks(d1, {t \in d.tasks : t.project_id \in IdsOf(P)})
  IN  DeleteNotes(d2, {n \in d.notes : n.project_id \in IdsOf(P)})

Tables == {"projects", "tasks", "notes", "focus_sessions", "tags", "task_tags"}

\* users(id) is referenced ON DELETE CASCADE by the user_id of projects,
\* tasks, notes, focus_sessions and tags; task_tags has no user_id. purged is
\* history: the tables the statement removed rows from.
DeleteUser(d, u) ==
  LET d1 == [d EXCEPT !.users = @ \ {u}]
      d2 == DeleteProjects(d1, {p \in d1.projects : p.user_id = u})
      d3 == DeleteTasks(d2, {t \in d2.tasks : t.user_id = u})
      d4 == DeleteNotes(d3, {n \in d3.notes : n.user_id = u})
      d5 == DeleteSessions(d4, {f \in d4.focus_sessions : f.user_id = u})
      d6 == DeleteTags(d5, {g \in d5.tags : g.user_id = u})
  IN  [d6 EXCEPT !.purged = {t \in Tables : d6[t] # d[t]}]

\* The constraints an INSERT or UPDATE of a projects/tasks/notes row must meet:
\* user_id NOT NULL REFERENCES users, title (name) NOT NULL, and for tasks
\* and notes project_id REFERENCES projects (NULL allowed).
RowConstraintsOk(d, res, row) ==
  /\ row.user_id \in d.users
  /\ row.title # NULLSTR
  /\ row.title # UNDEFSTR
  /\ row.project_id = NULL \/ row.project_id \in IdsOf(d.projects)

\* INSERT statements run so far.
Inserts(d) == d.seq.projects + d.seq.tasks + d.seq.notes - 3

\* INSERT ... RETURNING *: the SERIAL sequence is advanced whether or not the
\* row is accepted.
NextSeq(d, res) == [d EXCEPT !.seq[res] = @ + 1]

InsertRow(d, res, row) ==
  [NextSeq(d, res) EXCEPT ![res] = @ \cup {[row EXCEPT !.id = d.seq[res]]}]

\* SELECT * FROM <res> with no WHERE clause.
SelectByUserUnscoped(d, res, userId) == d[res]

\* SELECT * FROM <res> WHERE user_id = $1
SelectByUser(d, res, userId) == {r \in d[res] : r.user_id = userId}

\* SELECT id FROM projects WHERE id = $1, without the user_id.
ProjectAnyUserExists(d, project_id, userId) ==
  \E p \in d.projects : p.id = project_id

\* SELECT id FROM projects WHERE id = $1 AND user_id = $2
ProjectExists(d, project_id, userId) ==
  \E p \in d.projects : p.id = project_id /\ p.user_id = userId

\* ... WHERE id = $n, without the user_id.
TargetAnyOwner(d, res, id, userId) == {r \in d[res] : r.id = id}

\* ... WHERE id = $n AND user_id = $m: the rows an UPDATE or DELETE reaches.
Target(d, res, id, userId) == {r \in d[res] : r.id = id /\ r.user_id = userId}

ReplaceRow(d, res, old, new) == [d EXCEPT ![res] = (@ \ {old}) \cup {new}]

\* DELETE FROM <res> WHERE ...: the cascades of the schema apply.
DeleteRows(d, res, R) ==
  CASE res = "projects" -> DeleteProjects(d, R)
    [] res = "tasks" -> DeleteTasks(d, R)
    [] res = "notes" -> DeleteNotes(d, R)

----------------------------------------------------------------------------
(* Requests                                                                *)

\* req.body: title is title (tasks, notes) or name (projects). The other
\* optional columns a body may carry (description, completed, dueDate,
\* priority, is_recurring / content / color) are written the way title is
\* and are not part of the model's rows.
TitleIn == {UNDEFSTR, "", "a"}
ProjectIdIn == {UNDEF, NULL, 0} \cup ParamIds

Bodies == [project_id : ProjectIdIn, title : TitleIn]
EmptyBody == [project_id |-> UNDEF, title |-> UNDEFSTR]

\* projects.ts reads no project_id from the body.
BodiesOf(res) ==
  IF res = "projects" THEN {b \in Bodies : b.project_id = UNDEF} ELSE Bodies

Idle == [pc |-> "idle"]
NoOut == [conn |-> "none"]

\* A request as it arrives: session is the userId its Clerk session proves
\* (NoUserId: no session), handler records whether a router handler ran.
NewRequest(session, res, method, id, body) ==
  [at |-> 0, body |-> body, clerk |-> FALSE, handler |-> FALSE, id |-> id,
   method |-> method, pc |-> "new", res |-> res, rows |-> {},
   session |-> session, status |-> 0, userId |-> UNDEFSTR]

Done(req, status, rows) == [req EXCEPT !.pc = "done", !.status = status, !.rows = rows]

Park(req, pc) == [req EXCEPT !.pc = pc]

\* req.auth().userId: req.auth exists once clerkMiddleware has run.
AuthUserId(req) == IF req.clerk THEN req.session ELSE UNDEFSTR

----------------------------------------------------------------------------
(* routes/tasks.ts, routes/notes.ts, routes/projects.ts: each handler up   *)
(* to its first await                                                      *)

\* tasks and notes validate project_id; projects have none.
HasProjectId(res) == res \in {"tasks", "notes"}

\* if (project_id !== null && project_id !== undefined)
NeedsProjectCheck(req) ==
  HasProjectId(req.res) /\ req.body.project_id \notin {NULL, UNDEF}

\* The updateFields a PUT builds besides updated_at.
UpdateFields(req) ==
  (IF req.body.title # UNDEFSTR THEN {"title"} ELSE {})
    \cup (IF HasProjectId(req.res) /\ req.body.project_id # UNDEF
          THEN {"project_id"} ELSE {})

\* The PUT handler without its 'No valid fields' return: the UPDATE runs with
\* updated_at alone.
PutAfterCheckNoGuard(req) == Park(req, "h_update")

\* if (updateFields.length === 1 && updateFields[0].includes('updated_at'))
PutAfterCheck(req) ==
  IF UpdateFields(req) = {}
  THEN Done(req, 400, {})
  ELSE Park(req, "h_update")

\* A handler from its entry to its first await (or its early response).
HandlerStart(req) ==
  LET r == [req EXCEPT !.handler = TRUE]
  IN  IF FalsyStr(r.userId) THEN Done(r, 401, {})
      ELSE CASE r.method = "GET" -> Park(r, "h_select")
             [] r.method = "POST" ->
                  IF FalsyStr(r.body.title) THEN Done(r, 400, {})
                  ELSE IF NeedsProjectCheck(r) THEN Park(r, "h_check")
                  ELSE Park(r, "h_insert")
             [] r.method = "PUT" ->
                  IF NeedsProjectCheck(r) THEN Park(r, "h_check")
                  ELSE PutAfterCheck(r)
             [] r.method = "DELETE" -> Park(r, "h_delete")

----------------------------------------------------------------------------
(* index.ts: the Express stack in registration order                       *)

\* The registration order of the older index.ts: the health route after the
\* authentication and the routers.
AppStackOlder == <<"clerkMiddleware", "userSync", "tasks", "projects", "notes", "health">>

\* app.get('/api/health'), app.use('/api', clerkMiddleware()), app.use('/api',
\* <user sync>), app.use('/api/tasks' | '/api/projects' | '/api/notes', ...)
AppStack == <<"health", "clerkMiddleware", "userSync", "tasks", "projects", "notes">>

\* The custom middleware without its 401 return.
UserSyncStartOpen(req, i) ==
  [req EXCEPT !.userId = AuthUserId(req), !.pc = "sync_select", !.at = i]

\* The custom middleware up to its first await: 401 without a userId, else
\* req.userId = userId and the SELECT on users is issued.
UserSyncStart(req, i) ==
  IF FalsyStr(AuthUserId(req))
  THEN Done(req, 401, {})
  ELSE [req EXCEPT !.userId = AuthUserId(req), !.pc = "sync_select", !.at = i]

\* next(): the request runs through the stack from entry i until a response is
\* sent or a middleware awaits. Past the last entry Express answers 404.
RECURSIVE Walk(_, _)
Walk(req, i) ==
  IF i > Len(AppStack) THEN Done(req, 404, {})
  ELSE LET m == AppStack[i]
       IN  CASE m = "health" ->
                  IF req.res = "health" /\ req.method = "GET"
                  THEN Done(req, 200, {})
                  ELSE Walk(req, i + 1)
             [] m = "clerkMiddleware" -> Walk([req EXCEPT !.clerk = TRUE], i + 1)
             [] m = "userSync" -> UserSyncStart(req, i)
             [] OTHER ->
                  IF req.res = m THEN HandlerStart(req) ELSE Walk(req, i + 1)

\* The step's effect on the connection: the response goes out, or the request
\* stays parked at its await.
Settle(c, r) ==
  /\ out = NoOut
  /\ UNCHANGED clientVars
  /\ IF r.pc = "done"
     THEN /\ conns' = [conns EXCEPT ![c] = Idle]
          /\ out' = [conn |-> c, req |-> r]
     ELSE /\ conns' = [conns EXCEPT ![c] = r]
          /\ out' = NoOut

\* The client reads the response.
Deliver ==
  /\ out # NoOut
  /\ out' = NoOut
  /\ UNCHANGED <<db, conns>>
  /\ UNCHANGED clientVars

InFlightPosts ==
  Cardinality({c \in DOMAIN conns : conns[c].pc # "idle" /\ conns[c].method = "POST"})

\* tasks.ts and notes.ts never read each other's table: a behaviour drives
\* one of the two, beside projects.
OtherRouterUnused(res) ==
  /\ res = "tasks" =>
       /\ db.seq.notes = 1
       /\ \A c \in DOMAIN conns : conns[c].pc # "idle" => conns[c].res # "notes"
  /\ res = "notes" =>
       /\ db.seq.tasks = 1
       /\ \A c \in DOMAIN conns : conns[c].pc # "idle" => conns[c].res # "tasks"

\* A request arrives on an idle connection.
Receive(c, session, res, method, id, body) ==
  /\ conns[c].pc = "idle"
  /\ method = "POST" => OtherRouterUnused(res)
  /\ method = "POST" => Inserts(db) + InFlightPosts < MaxRows
  /\ Settle(c, Walk(NewRequest(session, res, method, id, body), 1))
  /\ UNCHANGED db

\* await query('SELECT id FROM users WHERE id = $1'), and what follows it.
SyncSelect(c, ok) ==
  LET r == conns[c]
  IN  /\ r.pc = "sync_select"
      /\ IF ok /\ r.userId \notin db.users
         THEN Settle(c, Park(r, "sync_insert"))
         ELSE Settle(c, Walk(r, r.at + 1))
      /\ UNCHANGED db

\* await query('INSERT INTO users ... ON CONFLICT (id) DO NOTHING'), then next().
SyncInsert(c, ok) ==
  LET r == conns[c]
  IN  /\ r.pc = "sync_insert"
      /\ db' = IF ok THEN [db EXCEPT !.users = @ \cup {r.userId}] ELSE db
      /\ Settle(c, Walk(r, r.at + 1))

----------------------------------------------------------------------------
(* The handlers' awaits: one database statement per step. ok = FALSE is the *)
(* query throwing (connection lost, malformed parameter): the catch block  *)
(* answers 500.                                                            *)

\* GET /: SELECT * FROM <res> WHERE user_id = $1
HSelect(c, ok) ==
  LET r == conns[c]
  IN  /\ r.pc = "h_select"
      /\ IF ok
         THEN Settle(c, Done(r, 200, SelectByUser(db, r.res, r.userId)))
         ELSE Settle(c, Done(r, 500, {}))
      /\ UNCHANGED db

\* POST / and PUT /:id: SELECT id FROM projects WHERE id = $1 AND user_id = $2
HCheck(c, ok) ==
  LET r == conns[c]
  IN  /\ r.pc = "h_check"
      /\ IF ~ok THEN Settle(c, Done(r, 500, {}))
         ELSE IF ~ProjectExists(db, r.body.project_id, r.userId)
         THEN Settle(c, Done(r, 400, {}))
         ELSE IF r.method = "POST" THEN Settle(c, Park(r, "h_insert"))
         ELSE Settle(c, PutAfterCheck(r))
      /\ UNCHANGED db

\* The project_id a POST stores: tasks.ts has project_id === 0 ? null :
\* project_id, notes.ts has project_id || null; projects have no such column.
\* An undefined parameter is sent as NULL.
InsertedProjectId(res, project_id) ==
  CASE res = "tasks" -> IF project_id \in {0, UNDEF} THEN NULL ELSE project_id
    [] res = "notes" -> IF FalsyNum(project_id) THEN NULL ELSE project_id
    [] res = "projects" -> NULL

\* The row of INSERT INTO <res> (..., user_id) VALUES (..., userId). creator
\* is history: the Clerk session of the request that made the row.
NewRow(r) ==
  [creator |-> r.session, id |-> 0,
   project_id |-> InsertedProjectId(r.res, r.body.project_id),
   title |-> r.body.title, updated_at |-> 0, user_id |-> r.userId]

\* POST /: INSERT INTO <res> ... RETURNING *
HInsert(c, ok) ==
  LET r == conns[c]
      row == NewRow(r)
  IN  /\ r.pc = "h_insert"
      /\ IF ~ok
         THEN /\ db' = db
              /\ Settle(c, Done(r, 500, {}))
         ELSE IF ~RowConstraintsOk(db, r.res, row)
         THEN /\ db' = NextSeq(db, r.res)
              /\ Settle(c, Done(r, 500, {}))
         ELSE /\ db' = InsertRow(db, r.res, row)
              /\ Settle(c, Done(r, 201, {[row EXCEPT !.id = db.seq[r.res]]}))

\* The project_id a PUT stores: tasks.ts has project_id === 0 ? null :
\* project_id, notes.ts has project_id || null.
UpdatedProjectId(res, project_id) ==
  CASE res = "tasks" -> IF project_id = 0 THEN NULL ELSE project_id
    [] res = "notes" -> IF FalsyNum(project_id) THEN NULL ELSE project_id
    [] res = "projects" -> NULL

\* SET <updateFields>, updated_at = CURRENT_TIMESTAMP. A row's updated_at is
\* 0 while it equals created_at and 1 once an UPDATE has stamped it.
UpdatedRow(r, old) ==
  LET F == UpdateFields(r)
  IN  [old EXCEPT
         !.title = IF "title" \in F THEN r.body.title ELSE @,
         !.project_id = IF "project_id" \in F
                        THEN UpdatedProjectId(r.res, r.body.project_id) ELSE @,
         !.updated_at = 1]

\* PUT /:id: UPDATE <res> SET ... WHERE id = $n AND user_id = $m RETURNING *
HUpdate(c, ok) ==
  LET r == conns[c]
      tgt == Target(db, r.res, r.id, r.userId)
  IN  /\ r.pc = "h_update"
      /\ IF ~ok
         THEN /\ db' = db
              /\ Settle(c, Done(r, 500, {}))
         ELSE IF tgt = {}
         THEN /\ db' = db
              /\ Settle(c, Done(r, 404, {}))
         ELSE \E old \in tgt :
                LET new == UpdatedRow(r, old)
                IN  IF ~RowConstraintsOk(db, r.res, new)
                    THEN /\ db' = db
                         /\ Settle(c, Done(r, 500, {}))
                    ELSE /\ db' = ReplaceRow(db, r.res, old, new)
                         /\ Settle(c, Done(r, 200, {new}))

\* DELETE /:id: DELETE FROM <res> WHERE id = $1 AND user_id = $2 RETURNING id
HDelete(c, ok) ==
  LET r == conns[c]
      tgt == Target(db, r.res, r.id, r.userId)
  IN  /\ r.pc = "h_delete"
      /\ IF ~ok
         THEN /\ db' = db
              /\ Settle(c, Done(r, 500, {}))
         ELSE IF tgt = {}
         THEN /\ db' = db
              /\ Settle(c, Done(r, 404, {}))
         ELSE /\ db' = DeleteRows(db, r.res, tgt)
              /\ Settle(c, Done(r, 204, {}))

----------------------------------------------------------------------------
(* The backend                                                             *)

Sessions == Users \cup {NoUserId}

ApiInit ==
  /\ db = EmptyDb
  /\ conns = [c \in {"c1"} |-> Idle]
  /\ out = NoOut
  /\ ClientUnused

ReceiveAny ==
  \E c \in DOMAIN conns, session \in Sessions :
    \/ Receive(c, session, "health", "GET", UNDEF, EmptyBody)
    \/ \E res \in Resources :
         \/ Receive(c, session, res, "GET", UNDEF, EmptyBody)
         \/ \E body \in BodiesOf(res) : Receive(c, session, res, "POST", UNDEF, body)
         \/ \E id \in ParamIds, body \in BodiesOf(res) :
              Receive(c, session, res, "PUT", id, body)
         \/ \E id \in ParamIds : Receive(c, session, res, "DELETE", id, EmptyBody)

ApiNext ==
  \/ ReceiveAny
  \/ Deliver
  \/ \E c \in DOMAIN conns, ok \in BOOLEAN : SyncSelect(c, ok)
  \/ \E c \in DOMAIN conns, ok \in BOOLEAN : SyncInsert(c, ok)
  \/ \E c \in DOMAIN conns, ok \in BOOLEAN : HSelect(c, ok)
  \/ \E c \in DOMAIN conns, ok \in BOOLEAN : HCheck(c, ok)
  \/ \E c \in DOMAIN conns, ok \in BOOLEAN : HInsert(c, ok)
  \/ \E c \in DOMAIN conns, ok \in BOOLEAN : HUpdate(c, ok)
  \/ \E c \in DOMAIN conns, ok \in BOOLEAN : HDelete(c, ok)

Spec == ApiInit /\ [][ApiNext]_vars

----------------------------------------------------------------------------
(* The backend under two connections: the requests that attach a task or a *)
(* note to a project, interleaved await by await with the requests that    *)
(* create and delete projects. Both users have synced before.              *)

ConcInit ==
  /\ db = [EmptyDb EXCEPT !.users = Users]
  /\ conns = [c \in {"c1", "c2"} |-> Idle]
  /\ out = NoOut
  /\ ClientUnused

ConcBodies ==
  {[project_id |-> UNDEF, title |-> "a"], [project_id |-> 1, title |-> "a"],
   [project_id |-> 1, title |-> UNDEFSTR]}

ConcReceive ==
  \E c \in DOMAIN conns, session \in Users :
    \/ Receive(c, session, "projects", "POST", UNDEF,
               [project_id |-> UNDEF, title |-> "a"])
    \/ Receive(c, session, "projects", "DELETE", 1, EmptyBody)
    \/ \E res \in {"tasks", "notes"}, body \in ConcBodies :
         \/ Receive(c, session, res, "POST", UNDEF, body)
         \/ Receive(c, session, res, "PUT", 1, body)

ConcNext ==
  \/ ConcReceive
  \/ Deliver
  \/ \E c \in DOMAIN conns : SyncSelect(c, TRUE)
  \/ \E c \in DOMAIN conns : HCheck(c, TRUE)
  \/ \E c \in DOMAIN conns : HInsert(c, TRUE)
  \/ \E c \in DOMAIN conns : HUpdate(c, TRUE)
  \/ \E c \in DOMAIN conns : HDelete(c, TRUE)

SpecConc == ConcInit /\ [][ConcNext]_vars

----------------------------------------------------------------------------
(* The schema of initDb alone: SQL statements run against the seven tables. *)
(* A statement a constraint rejects changes nothing but the sequence.      *)

\* Statements that insert, in one behaviour.
MaxStatements == 4

DbInserts(d) ==
  d.seq.projects + d.seq.tasks + d.seq.notes + d.seq.focus_sessions + d.seq.tags - 5
    + Cardinality(d.task_tags)

\* A projects, tasks or notes row of user u in project pid.
DbRow(u, pid) ==
  [creator |-> u, id |-> 0, project_id |-> pid, title |-> "a",
   updated_at |-> 0, user_id |-> u]

\* A statement touches the database alone.
DbOnly == UNCHANGED <<conns, out>> /\ UNCHANGED clientVars

\* INSERT INTO users (id, email)
DbInsertUser(u) ==
  /\ DbOnly
  /\ u \notin db.users
  /\ db' = [db EXCEPT !.users = @ \cup {u}]

\* INSERT INTO projects | tasks | notes
DbInsertRow(res, u, pid) ==
  /\ DbOnly
  /\ DbInserts(db) < MaxStatements
  /\ res = "projects" => pid = NULL
  /\ db' = IF RowConstraintsOk(db, res, DbRow(u, pid))
           THEN InsertRow(db, res, DbRow(u, pid))
           ELSE NextSeq(db, res)

\* INSERT INTO focus_sessions: user_id NOT NULL REFERENCES users, task_id
\* REFERENCES tasks.
DbInsertSession(u, tid) ==
  /\ DbOnly
  /\ DbInserts(db) < MaxStatements
  /\ db' = IF u \in db.users /\ (tid = NULL \/ tid \in IdsOf(db.tasks))
           THEN InsertRow(db, "focus_sessions",
                          [id |-> 0, task_id |-> tid, user_id |-> u])
           ELSE NextSeq(db, "focus_sessions")

\* INSERT INTO tags: user_id NOT NULL REFERENCES users.
DbInsertTag(u) ==
  /\ DbOnly
  /\ DbInserts(db) < MaxStatements
  /\ db' = IF u \in db.users
           THEN InsertRow(db, "tags", [id |-> 0, user_id |-> u])
           ELSE NextSeq(db, "tags")

\* INSERT INTO task_tags: task_id REFERENCES tasks, tag_id REFERENCES tags,
\* PRIMARY KEY (task_id, tag_id). The row has no user_id.
DbInsertTaskTag(tid, gid) ==
  /\ DbOnly
  /\ DbInserts(db) < MaxStatements
  /\ tid \in IdsOf(db.tasks)
  /\ gid \in IdsOf(db.tags)
  /\ [tag_id |-> gid, task_id |-> tid] \notin db.task_tags
  /\ db' = [db EXCEPT !.task_tags = @ \cup {[tag_id |-> gid, task_id |-> tid]}]

\* DELETE FROM users WHERE id = u
DbDeleteUser(u) ==
  /\ DbOnly
  /\ u \in db.users
  /\ db' = DeleteUser(db, u)

\* DELETE FROM projects | tasks | notes WHERE id = id
DbDeleteRow(res, id) ==
  /\ DbOnly
  /\ \E r \in db[res] : r.id = id
  /\ db' = DeleteRows(db, res, {r \in db[res] : r.id = id})

\* DELETE FROM tags WHERE id = id
DbDeleteTag(id) ==
  /\ DbOnly
  /\ \E g \in db.tags : g.id = id
  /\ db' = DeleteTags(db, {g \in db.tags : g.id = id})

DbInit ==
  /\ db = EmptyDb
  /\ ServerUnused
  /\ ClientUnused

DbNext ==
  \/ \E u \in Users : DbInsertUser(u)
  \/ \E res \in Resources, u \in Users, pid \in {NULL} \cup ParamIds :
       DbInsertRow(res, u, pid)
  \/ \E u \in Users, tid \in {NULL} \cup ParamIds : DbInsertSession(u, tid)
  \/ \E u \in Users : DbInsertTag(u)
  \/ \E tid \in ParamIds, gid \in ParamIds : DbInsertTaskTag(tid, gid)
  \/ \E u \in Users : DbDeleteUser(u)
  \/ \E res \in Resources, id \in ParamIds : DbDeleteRow(res, id)
  \/ \E id \in ParamIds : DbDeleteTag(id)

SpecDb == DbInit /\ [][DbNext]_vars

----------------------------------------------------------------------------
(* api/client.ts: authenticatedFetch, one step per await                   *)

Endpoints == {"/tasks", "/projects", "/notes"}

\* What getToken({ template: 'backend' }) resolves to: null without a
\* session, else the token.
Tokens == {NULLSTR, "", "tok"}

\* response.status; response.ok is status in 200..299.
Statuses == {200, 201, 204, 400, 401, 404, 500}
ResponseOk(status) == status >= 200 /\ status <= 299

\* The header the object literal does not hold.
NoHeader == "<absent>"

CallIdle ==
  [authorization |-> NoHeader, endpoint |-> "", method |-> "",
   outcome |-> "pending", pc |-> "idle", sent |-> FALSE, status |-> 0,
   token |-> UNDEFSTR]

\* A call touches nothing but itself.
CallOnly == UNCHANGED <<db, conns, out, net, rq, page, llm, add, hook, heur>>

\* if (token) headers['Authorization'] = `Bearer ${token}`
Authorization(token) ==
  IF FalsyStr(token) THEN NoHeader ELSE "Bearer " \o token

\* authenticatedFetch(endpoint, options) up to await getToken(...)
AuthenticatedFetch(endpoint, method) ==
  /\ call.pc = "idle"
  /\ call' = [CallIdle EXCEPT !.pc = "getToken", !.endpoint = endpoint,
                              !.method = method]
  /\ CallOnly

\* getToken resolves: the headers are built and fetch is called.
GetTokenResolves(token) ==
  /\ call.pc = "getToken"
  /\ call' = [call EXCEPT !.pc = "fetch", !.token = token, !.sent = TRUE,
                          !.authorization = Authorization(token)]
  /\ CallOnly

\* getToken rejects: the call rejects before any fetch.
GetTokenRejects ==
  /\ call.pc = "getToken"
  /\ call' = [call EXCEPT !.pc = "settled", !.outcome = "rejected"]
  /\ CallOnly

\* fetch resolves with a response.
FetchResolves(status) ==
  /\ call.pc = "fetch"
  /\ call' = IF ~ResponseOk(status)
             THEN [call EXCEPT !.pc = "errorJson", !.status = status]
             ELSE IF status = 204
             THEN [call EXCEPT !.pc = "settled", !.status = status,
                               !.outcome = "resolved"]
             ELSE [call EXCEPT !.pc = "json", !.status = status]
  /\ CallOnly

\* fetch rejects (network error).
FetchRejects ==
  /\ call.pc = "fetch"
  /\ call' = [call EXCEPT !.pc = "settled", !.outcome = "rejected"]
  /\ CallOnly

\* await response.json() of a non-OK response, parsed or not: throw new Error.
ErrorJsonSettles(parsed) ==
  /\ call.pc = "errorJson"
  /\ call' = [call EXCEPT !.pc = "settled", !.outcome = "rejected"]
  /\ CallOnly

\* return response.json()
JsonSettles(parsed) ==
  /\ call.pc = "json"
  /\ call' = [call EXCEPT !.pc = "settled",
                          !.outcome = IF parsed THEN "resolved" ELSE "rejected"]
  /\ CallOnly

\* The caller takes the result.
CallReturns ==
  /\ call.pc = "settled"
  /\ call' = CallIdle
  /\ CallOnly

FetchInit ==
  /\ db = EmptyDb
  /\ ServerUnused
  /\ net = Unused /\ rq = Unused /\ page = Unused /\ llm = Unused /\ UiUnused
  /\ call = CallIdle

FetchNext ==
  \/ \E endpoint \in Endpoints, method \in Methods : AuthenticatedFetch(endpoint, method)
  \/ \E token \in Tokens : GetTokenResolves(token)
  \/ GetTokenRejects
  \/ \E status \in Statuses : FetchResolves(status)
  \/ FetchRejects
  \/ \E parsed \in BOOLEAN : ErrorJsonSettles(parsed)
  \/ \E parsed \in BOOLEAN : JsonSettles(parsed)
  \/ CallReturns

SpecFetch == FetchInit /\ [][FetchNext]_vars

----------------------------------------------------------------------------
(* generateTaskSuggestions (the Gemini helper), one step per await         *)

\* return [...] of the else branch and of the catch block.
FallbackUnexpected ==
  <<"Consider reviewing your project goals.", "Plan your next week's tasks.">>
FallbackError ==
  <<"Review your daily priorities.", "Organize your inbox.", "Take a short break.">>

\* existingTasks: null, or an array of that many tasks.
ExistingTasks == {NULL, 0, 1, 2, 3}

\* The status of the LLM response.
LlmStatuses == {200, 400, 401, 403, 429, 500, 503}

\* What await response.json() gives for an OK response: a rejection, or a
\* result of one of these shapes.
LlmResults ==
  {"<rejects>", "null", "no candidates", "candidates: []", "no content",
   "no parts", "parts: []", "parts: [..]"}

\* result.candidates[0].content.parts[0].text
LlmTexts ==
  {UNDEFSTR, "Here are some tasks", "[]", "[\"a\"]", "[\"a\",\"b\",\"c\"]",
   "{}", "null"}

\* JSON.parse(text): whether it returns, and what.
JsonParses(text) == text \in {"[]", "[\"a\"]", "[\"a\",\"b\",\"c\"]", "{}", "null"}
JsonParse(text) ==
  CASE text = "[]" -> [items |-> <<>>, kind |-> "array"]
    [] text = "[\"a\"]" -> [items |-> <<"a">>, kind |-> "array"]
    [] text = "[\"a\",\"b\",\"c\"]" -> [items |-> <<"a", "b", "c">>,
                                        kind |-> "array"]
    [] text = "{}" -> [items |-> <<>>, kind |-> "object"]
    [] text = "null" -> [items |-> <<>>, kind |-> "null"]

LlmIdle ==
  [cause |-> "", errorBody |-> "", existingTasks |-> 0, outcome |-> "pending",
   pc |-> "idle", result |-> "", status |-> 0, text |-> "",
   value |-> [items |-> <<>>, kind |-> "none"]]

LlmOnly == UNCHANGED <<db, conns, out, net, rq, page, call, add, hook, heur>>

\* A catch block that throws the error on.
CatchRethrow(l, cause) ==
  [l EXCEPT !.pc = "settled", !.cause = cause, !.outcome = "rejected"]

\* catch (error) { console.error(...); return [...] }. cause is history: the
\* place the error came from.
Catch(l, cause) ==
  [l EXCEPT !.pc = "settled", !.cause = cause, !.outcome = "resolved",
            !.value = [items |-> FallbackError, kind |-> "array"]]

\* generateTaskSuggestions(existingTasks) up to await fetch(...)
GenerateTaskSuggestions(n) ==
  /\ llm.pc = "idle"
  /\ llm' = IF n = NULL
            THEN Catch([LlmIdle EXCEPT !.existingTasks = n], "existingTasks.map")
            ELSE [LlmIdle EXCEPT !.pc = "fetch", !.existingTasks = n]
  /\ LlmOnly

\* fetch rejects.
LlmFetchRejects ==
  /\ llm.pc = "fetch"
  /\ llm' = Catch(llm, "fetch threw")
  /\ LlmOnly

\* fetch resolves.
LlmFetchResolves(status) ==
  /\ llm.pc = "fetch"
  /\ llm' = [llm EXCEPT !.status = status,
                        !.pc = IF ResponseOk(status) THEN "json" ELSE "errorJson"]
  /\ LlmOnly

\* await response.json() of a non-OK response: it throws, or throw new Error.
LlmErrorJsonSettles(parsed) ==
  /\ llm.pc = "errorJson"
  /\ llm' = Catch([llm EXCEPT !.errorBody = IF parsed THEN "parsed" ELSE "<rejects>"],
                  "not ok")
  /\ LlmOnly

\* The test of result.candidates[0].content.parts.length.
HasParts(result) == result = "parts: [..]"

\* await response.json() of an OK response, and the rest of the try block.
LlmJsonSettles(result, text) ==
  /\ llm.pc = "json"
  /\ HasParts(result) \/ text = UNDEFSTR
  /\ llm' =
       LET l == [llm EXCEPT !.result = result, !.text = text]
       IN  IF result = "<rejects>" THEN Catch(l, "json threw")
           ELSE IF result = "null" THEN Catch(l, "structure")
           ELSE IF ~HasParts(result)
           THEN [l EXCEPT !.pc = "settled", !.cause = "structure",
                          !.outcome = "resolved",
                          !.value = [items |-> FallbackUnexpected,
                                     kind |-> "array"]]
           ELSE IF ~JsonParses(text) THEN Catch(l, "parse")
           ELSE [l EXCEPT !.pc = "settled", !.cause = "none",
                          !.outcome = "resolved", !.value = JsonParse(text)]
  /\ LlmOnly

\* The caller takes the suggestions.
LlmReturns ==
  /\ llm.pc = "settled"
  /\ llm' = LlmIdle
  /\ LlmOnly

LlmInit ==
  /\ db = EmptyDb
  /\ ServerUnused
  /\ net = Unused /\ rq = Unused /\ page = Unused /\ call = Unused /\ UiUnused
  /\ llm = LlmIdle

LlmNext ==
  \/ \E n \in ExistingTasks : GenerateTaskSuggestions(n)
  \/ LlmFetchRejects
  \/ \E status \in LlmStatuses : LlmFetchResolves(status)
  \/ \E parsed \in BOOLEAN : LlmErrorJsonSettles(parsed)
  \/ \E result \in LlmResults, text \in LlmTexts : LlmJsonSettles(result, text)
  \/ LlmReturns

SpecLlm == LlmInit /\ [][LlmNext]_vars

----------------------------------------------------------------------------
(* pages/Tasks.tsx: the memoized dates and filteredTasks. Time is counted in *)
(* ticks from the midnight that starts day 0, a Thursday (as 1970-01-01).  *)

\* Ticks in a day, and the last day the clock reaches.
TicksPerDay == 2
MaxDay == 9

LastTick == (MaxDay + 1) * TicksPerDay - 1

\* d.setHours(0, 0, 0, 0)
StartOfDay(t) == (t \div TicksPerDay) * TicksPerDay

\* d.getDay(): 0 for Sunday, 6 for Saturday.
GetDay(t) == ((t \div TicksPerDay) + 4) % 7

\* tomorrow: d.setDate(d.getDate() + 1); d.setHours(0, 0, 0, 0)
Tomorrow(today) == StartOfDay(today + TicksPerDay)

\* endOfWeek: d.setDate(today.getDate() + (6 - today.getDay()));
\* d.setHours(23, 59, 59, 999)
EndOfWeek(today) ==
  StartOfDay(today + (6 - GetDay(today)) * TicksPerDay) + TicksPerDay - 1

Tabs == {"all", "completed", "uncompleted", "today", "tomorrow", "this-week", "no-date"}

\* The tasks the hook hands the page: for each project (none, 1, 2) one task
\* without due date and one task due at each tick of the clock's range.
NumDues == LastTick + 2
PageTasks ==
  [i \in 1..(3 * NumDues) |->
     [completed |-> i % 2 = 0,
      due_date |-> IF (i - 1) % NumDues = 0 THEN NULL ELSE ((i - 1) % NumDues) - 1,
      id |-> i,
      project_id |-> IF (i - 1) \div NumDues = 0 THEN NULL ELSE (i - 1) \div NumDues]]

\* The callback of tasks.filter.
Shows(task, currentProject, activeTab, today) ==
  IF currentProject # NULL /\ task.project_id # currentProject THEN FALSE
  ELSE IF activeTab = "all" THEN TRUE
  ELSE IF activeTab = "completed" THEN task.completed
  ELSE IF activeTab = "uncompleted" THEN ~task.completed
  ELSE IF task.due_date = NULL THEN activeTab = "no-date"
  ELSE LET due_date == StartOfDay(task.due_date)
       IN  IF activeTab = "today" THEN due_date = today
           ELSE IF activeTab = "tomorrow" THEN due_date = Tomorrow(today)
           ELSE IF activeTab = "this-week"
           THEN due_date >= today /\ due_date <= EndOfWeek(today)
           ELSE FALSE

\* filteredTasks: its memo lists every value it reads, so it is the filter of
\* the current tasks, project, tab and memoized dates.
FilteredTasks ==
  SelectSeq(PageTasks,
            LAMBDA t : Shows(t, page.currentProject, page.activeTab, page.today))

Unmounted(now) ==
  [activeTab |-> "all", currentProject |-> NULL, now |-> now,
   pc |-> "unmounted", today |-> NULL]

PageOnly == UNCHANGED <<db, conns, out, net, rq, call, llm, add, hook, heur>>

\* The first render: useState("all"), useState(null), and useMemo(() => { d =
\* new Date(); d.setHours(0, 0, 0, 0) }, []) computes today.
PageMount ==
  /\ page.pc = "unmounted"
  /\ page' = [page EXCEPT !.pc = "mounted", !.today = StartOfDay(page.now)]
  /\ PageOnly

\* The user leaves the page: its state and memos are dropped.
PageUnmount ==
  /\ page.pc = "mounted"
  /\ page' = Unmounted(page.now)
  /\ PageOnly

\* The clock advances; no render recomputes today.
Tick ==
  /\ page.now < LastTick
  /\ page' = [page EXCEPT !.now = @ + 1]
  /\ PageOnly

\* setActiveTab
SetActiveTab(tab) ==
  /\ page.pc = "mounted"
  /\ page' = [page EXCEPT !.activeTab = tab]
  /\ PageOnly

\* setCurrentProject
SetCurrentProject(p) ==
  /\ page.pc = "mounted"
  /\ page' = [page EXCEPT !.currentProject = p]
  /\ PageOnly

PageInit ==
  /\ db = EmptyDb
  /\ ServerUnused
  /\ net = Unused /\ rq = Unused /\ call = Unused /\ llm = Unused /\ UiUnused
  /\ page = Unmounted(0)

PageNext ==
  \/ PageMount
  \/ PageUnmount
  \/ Tick
  \/ \E tab \in Tabs : SetActiveTab(tab)
  \/ \E p \in {NULL, 1, 2} : SetCurrentProject(p)

SpecPage == PageInit /\ [][PageNext]_vars

----------------------------------------------------------------------------
(* hooks/useApi.ts with React Query: the cache entry of one hook (useTasks, *)
(* useProjects or useNotes), its mutations, and the backend answering the  *)
(* requests one statement at a time. The user is signed in as QueryUser.   *)

\* Mutations the user triggers in one behaviour.
MaxMutations == 3

QueryUser == "u1"

\* The list the server holds for the user: what GET / answers.
ServerList == SelectByUser(db, rq.res, QueryUser)

\* An HTTP message: a request ("up") or its response ("down"). n is the fetch
\* (kind "query") or the mutation (kind "mutation") it belongs to; ver is
\* history: the count of writes the server had applied when it answered.
Message(dir, kind, n, method, id, body, status, rows, ver) ==
  [body |-> body, dir |-> dir, id |-> id, kind |-> kind, method |-> method,
   n |-> n, rows |-> rows, status |-> status, ver |-> ver]

\* queryFn: getTasksApi -> authenticatedFetch('/tasks')
QueryRequest(gen) == Message("up", "query", gen, "GET", UNDEF, EmptyBody, 0, {}, 0)

\* mutationFn: createTaskApi | updateTaskApi | deleteTaskApi | duplicateTaskApi
MutationRequest(n, method, id, body) ==
  Message("up", "mutation", n, method, id, body, 0, {}, 0)

Response(m, status, rows, ver) ==
  Message("down", m.kind, m.n, m.method, m.id, m.body, status, rows, ver)

\* useQuery({ queryKey, queryFn, enabled: isSignedIn, initialData: [] }) under
\* the QueryClient's staleTime of five minutes: the initial data counts as
\* fresh, no fetch starts on mount. The fields from trigger on are history.
QueryMounted(res) ==
  [data |-> {}, error |-> FALSE, fetched |-> FALSE, fetching |-> FALSE,
   gen |-> 0, invalidated |-> FALSE, issued |-> 0, res |-> res,
   servedVer |-> 0, trigger |-> "none", ver |-> 0]

QueryOnly == UNCHANGED <<conns, out, page, call, llm, add, hook, heur>>

\* onSuccess without the invalidation: the toast alone.
OnSuccessToastOnly(q) == q

\* onSuccess: queryClient.invalidateQueries({ queryKey }): the entry is marked
\* invalidated, a fetch in flight is cancelled and the active query refetches.
OnSuccess(q) ==
  [q EXCEPT !.invalidated = TRUE, !.fetching = TRUE, !.gen = @ + 1,
            !.trigger = "invalidate"]

\* addTask | updateTask | deleteTask: mutateAsync sends the request. update
\* and delete act on a row of the list the hook exposes.
Mutate(method, id, body) ==
  /\ rq.issued < MaxMutations
  /\ method \in {"PUT", "DELETE"} => id \in IdsOf(rq.data)
  /\ rq' = [rq EXCEPT !.issued = @ + 1]
  /\ net' = net \cup {MutationRequest(rq.issued + 1, method, id, body)}
  /\ UNCHANGED db
  /\ QueryOnly

\* duplicateTask(task): createTask with the task less id, user_id, created_at
\* and updated_at. useTasks alone has it.
Duplicate(task) ==
  /\ rq.res = "tasks"
  /\ rq.issued < MaxMutations
  /\ task \in rq.data
  /\ rq' = [rq EXCEPT !.issued = @ + 1]
  /\ net' = net \cup {MutationRequest(rq.issued + 1, "POST", UNDEF,
                         [project_id |-> task.project_id,
                          title |-> task.title])}
  /\ UNCHANGED db
  /\ QueryOnly

\* The request as the router handler sees it, past the two middlewares.
Authenticated(m) ==
  [NewRequest(QueryUser, rq.res, m.method, m.id, m.body)
     EXCEPT !.clerk = TRUE, !.userId = QueryUser, !.handler = TRUE]

\* The backend answers a request: the handler of its method, start to end.
\* ok = FALSE is a query that throws.
Serve(m, ok) ==
  LET r == Authenticated(m)
      tgt == Target(db, r.res, r.id, r.userId)
      reply(status, rows, d) ==
        /\ db' = d
        /\ rq' = [rq EXCEPT !.ver = IF d[r.res] # db[r.res] THEN @ + 1 ELSE @]
        /\ net' = (net \ {m})
                    \cup {Response(m, status, rows,
                                   IF d[r.res] # db[r.res] THEN rq.ver + 1 ELSE rq.ver)}
  IN  /\ m \in net
      /\ m.dir = "up"
      /\ QueryOnly
      /\ IF ~ok THEN reply(500, {}, db)
         ELSE CASE m.method = "GET" ->
                     reply(200, SelectByUser(db, r.res, r.userId), db)
                [] m.method = "POST" ->
                     IF FalsyStr(r.body.title) THEN reply(400, {}, db)
                     ELSE IF NeedsProjectCheck(r)
                             /\ ~ProjectExists(db, r.body.project_id, r.userId)
                     THEN reply(400, {}, db)
                     ELSE IF ~RowConstraintsOk(db, r.res, NewRow(r))
                     THEN reply(500, {}, NextSeq(db, r.res))
                     ELSE reply(201, {[NewRow(r) EXCEPT !.id = db.seq[r.res]]},
                                InsertRow(db, r.res, NewRow(r)))
                [] m.method = "PUT" ->
                     IF UpdateFields(r) = {} THEN reply(400, {}, db)
                     ELSE IF tgt = {} THEN reply(404, {}, db)
                     ELSE \E old \in tgt :
                            reply(200, {UpdatedRow(r, old)},
                                  ReplaceRow(db, r.res, old, UpdatedRow(r, old)))
                [] m.method = "DELETE" ->
                     IF tgt = {} THEN reply(404, {}, db)
                     ELSE reply(204, {}, DeleteRows(db, r.res, tgt))

\* The response of a fetch arrives. A fetch that an invalidation cancelled has
\* its response dropped; a failed fetch keeps the data and sets the error.
QuerySettles(m) ==
  /\ m \in net
  /\ m.dir = "down"
  /\ m.kind = "query"
  /\ net' = net \ {m}
  /\ rq' = IF m.n # rq.gen \/ ~rq.fetching THEN rq
           ELSE IF ResponseOk(m.status)
           THEN [rq EXCEPT !.data = m.rows, !.fetching = FALSE,
                           !.invalidated = FALSE, !.error = FALSE,
                           !.fetched = TRUE, !.servedVer = m.ver]
           ELSE [rq EXCEPT !.fetching = FALSE, !.error = TRUE]
  /\ UNCHANGED db
  /\ QueryOnly

\* The response of a mutation arrives: onSuccess, or onError (a toast).
MutationSettles(m) ==
  /\ m \in net
  /\ m.dir = "down"
  /\ m.kind = "mutation"
  /\ LET q == IF ResponseOk(m.status) THEN OnSuccess(rq) ELSE rq
     IN  /\ rq' = q
         /\ net' = (net \ {m})
                     \cup (IF q.gen # rq.gen THEN {QueryRequest(q.gen)} ELSE {})
  /\ UNCHANGED db
  /\ QueryOnly

\* The rows the user's other sessions had stored before this one.
Stored == {{}, {[DbRow(QueryUser, NULL) EXCEPT !.id = 1]}}

QueryInit ==
  /\ \E res \in Resources, rows \in Stored :
       /\ db = [EmptyDb EXCEPT !.users = {QueryUser}, ![res] = rows,
                               !.seq[res] = 1 + Cardinality(rows)]
       /\ rq = QueryMounted(res)
  /\ net = {}
  /\ ServerUnused
  /\ page = Unused /\ call = Unused /\ llm = Unused /\ UiUnused

QueryNext ==
  \/ Mutate("POST", UNDEF, [project_id |-> UNDEF, title |-> "a"])
  \/ \E id \in Ids : Mutate("PUT", id, [project_id |-> UNDEF, title |-> "a"])
  \/ \E id \in Ids : Mutate("DELETE", id, EmptyBody)
  \/ \E task \in rq.data : Duplicate(task)
  \/ \E m \in net, ok \in BOOLEAN : Serve(m, ok)
  \/ \E m \in net : QuerySettles(m)
  \/ \E m \in net : MutationSettles(m)

SpecQuery == QueryInit /\ [][QueryNext]_vars

----------------------------------------------------------------------------
(* Properties of the backend                                               *)

Responded == out # NoOut

\* The response on the wire answers a request to one of the three routers.
RouterResponse == Responded /\ out.req.res \in Resources

\* The response on the wire answers a PUT or DELETE on a row that exists and
\* belongs to another user than the requester.
ForeignWrite ==
  /\ RouterResponse
  /\ out.req.method \in {"PUT", "DELETE"}
  /\ ~FalsyStr(out.req.session)
  /\ \E r \in db[out.req.res] : r.id = out.req.id /\ r.user_id # out.req.session

\* C1: a 200 answer to GET /api/tasks, /api/notes or /api/projects by user A
\* holds exactly the rows whose user_id is A, and each of them was created by
\* a request of A.
C1_GetReturnsOwnRows ==
  (RouterResponse /\ out.req.method = "GET" /\ out.req.status = 200) =>
     /\ out.req.rows = {r \in db[out.req.res] : r.user_id = out.req.session}
     /\ \A r \in out.req.rows : r.creator = out.req.session
     /\ \A r \in db[out.req.res] : r.creator = out.req.session => r \in out.req.rows

\* A GET is answered with rows of the requester while the table also holds a
\* row of the other user.
C1_Witness ==
  /\ RouterResponse /\ out.req.method = "GET" /\ out.req.status = 200
  /\ out.req.rows # {}
  /\ \E r \in db[out.req.res] : r.creator # out.req.session

\* C2 as stated: a PUT or DELETE by a user who does not own the row is
\* answered 404 (a query that throws is answered 500 by every handler).
C2_ForeignWriteIs404 == (ForeignWrite /\ out.req.status # 500) => out.req.status = 404

\* The body of a PUT fails validation: no updatable field, or a project_id
\* that is not a project of the requester.
PutBodyRejected(req) ==
  \/ NeedsProjectCheck(req) /\ ~ProjectExists(db, req.body.project_id, req.userId)
  \/ UpdateFields(req) = {}

C2_Status ==
  ForeignWrite =>
     /\ out.req.status \in {400, 404, 500}
     /\ out.req.method = "DELETE" => out.req.status # 400
     /\ out.req.status = 400 => PutBodyRejected(out.req)
     /\ out.req.status = 404 => out.req.method = "DELETE" \/ ~PutBodyRejected(out.req)

\* The step that answers a PUT or DELETE keeps every row of that id that
\* belongs to another user than the requester.
C2_RowKept ==
  (out = NoOut /\ out' # NoOut /\ out'.req.res \in Resources
     /\ out'.req.method \in {"PUT", "DELETE"}) =>
       \A r \in db[out'.req.res] :
          (r.id = out'.req.id /\ r.user_id # out'.req.session) => r \in db'[out'.req.res]

\* C2, amended: a PUT or DELETE by a user who does not own the row leaves the
\* row unchanged and is never answered with success. DELETE is answered 404;
\* PUT is answered 400 when its body names no updatable field or a project_id
\* that is not a project of the requester, and 404 otherwise; either is
\* answered 500 when a query throws.
C2_ForeignWriteRejected == []C2_Status /\ [][C2_RowKept]_vars

\* A PUT on another user's row is answered 404.
C2_Witness == ForeignWrite /\ out.req.method = "PUT" /\ out.req.status = 404

HandlerPcs == {"h_select", "h_check", "h_insert", "h_update", "h_delete"}

\* C3: a request without Clerk userId is answered 401 before any router
\* handler runs, and a request in a handler has req.userId set to the userId
\* of its session.
C3_NoHandlerWithoutUserId ==
  /\ \A c \in DOMAIN conns :
        conns[c].pc \in HandlerPcs =>
           /\ conns[c].handler
           /\ ~FalsyStr(conns[c].userId)
           /\ conns[c].userId = conns[c].session
  /\ RouterResponse =>
        /\ FalsyStr(out.req.session) => out.req.status = 401 /\ ~out.req.handler
        /\ out.req.handler => ~FalsyStr(out.req.userId) /\ out.req.userId = out.req.session
        /\ out.req.status \in {200, 201, 204} => out.req.handler

\* A request to a router without session is answered 401.
C3_Witness ==
  RouterResponse /\ out.req.session = NoUserId /\ out.req.status = 401

\* C9: GET /api/health is answered 200, with or without a Clerk session.
C9_HealthIsPublic ==
  (Responded /\ out.req.res = "health") =>
     out.req.status = 200 /\ ~out.req.clerk /\ ~out.req.handler

\* The health check of a request without session is answered 200.
C9_Witness ==
  Responded /\ out.req.res = "health" /\ out.req.session = NoUserId
    /\ out.req.status = 200

\* C10: every task and every note with a project_id references a project that
\* exists and belongs to the user of that task or note.
C10_ProjectOfSameUser ==
  \A t \in db.tasks \cup db.notes :
     t.project_id # NULL =>
        \E p \in db.projects : p.id = t.project_id /\ p.user_id = t.user_id

\* A task or note is attached to a project while a request that passed the
\* project check for that project is still waiting to write.
C10_Witness ==
  /\ \E t \in db.tasks \cup db.notes : t.project_id # NULL
  /\ \E c \in DOMAIN conns :
        conns[c].pc \in {"h_insert", "h_update"} /\ conns[c].body.project_id # UNDEF

----------------------------------------------------------------------------
(* Properties of the schema                                                *)

\* C4 as stated: every row of projects, tasks, notes, focus_sessions, tags and
\* task_tags carries a user_id that references a users row.
C4_EveryTableHasUserId ==
  \A t \in Tables : \A r \in db[t] :
     "user_id" \in DOMAIN r /\ r.user_id \in db.users

UserTables == {"projects", "tasks", "notes", "focus_sessions", "tags"}

\* The foreign keys hold: the user_id of the five tables that have one, the
\* task_id and tag_id of task_tags.
C4_ForeignKeys ==
  /\ \A t \in UserTables : \A r \in db[t] : r.user_id \in db.users
  /\ \A tt \in db.task_tags :
        tt.task_id \in IdsOf(db.tasks) /\ tt.tag_id \in IdsOf(db.tags)

\* The step that deletes the users row u leaves no row with user_id u, and no
\* task_tags row of a task or a tag that had user_id u.
C4_DeleteCascades ==
  \A u \in Users :
     (u \in db.users /\ u \notin db'.users) =>
        /\ \A t \in UserTables : \A r \in db'[t] : r.user_id # u
        /\ \A tt \in db'.task_tags :
              /\ \A k \in db.tasks : k.user_id = u => tt.task_id # k.id
              /\ \A g \in db.tags : g.user_id = u => tt.tag_id # g.id

\* C4, amended: projects, tasks, notes, focus_sessions and tags are scoped by
\* a user_id foreign key to users with cascading delete; task_tags has no
\* user_id and is scoped through its task_id and tag_id, which cascade. After
\* a users row is deleted, no row of the five tables with that user_id and no
\* task_tags row of that user's tasks or tags remains.
C4_UserDeleteLeavesNoRows == []C4_ForeignKeys /\ [][C4_DeleteCascades]_vars

\* A users row has been deleted, and the cascade removed rows of tasks, tags
\* and task_tags.
C4_Witness ==
  /\ {"tasks", "tags", "task_tags"} \subseteq db.purged
  /\ db.users # Users

----------------------------------------------------------------------------
(* Properties of authenticatedFetch                                        *)

\* C8 as stated: every request authenticatedFetch sends carries the header
\* Authorization: Bearer <token> with the Clerk session token.
C8_EveryRequestCarriesToken ==
  call.sent => ~FalsyStr(call.token) /\ call.authorization = "Bearer " \o call.token

\* A request has been sent with the token of the session.
C8_Witness ==
  call.sent /\ call.token = "tok" /\ call.authorization = "Bearer tok"

----------------------------------------------------------------------------
(* Properties of generateTaskSuggestions                                   *)

LlmFailures == {"fetch threw", "not ok", "json threw", "structure", "parse"}

\* C7: generateTaskSuggestions never rejects, and when the LLM request throws,
\* answers a non-OK status, answers an unexpected structure or answers text
\* that does not parse, it resolves to one of the two static lists, neither of
\* which is empty.
C7_NeverRejects ==
  /\ llm.outcome # "rejected"
  /\ llm.pc = "settled" =>
        /\ llm.outcome = "resolved"
        /\ llm.cause \in LlmFailures =>
              /\ llm.value.kind = "array"
              /\ llm.value.items \in {FallbackUnexpected, FallbackError}
              /\ Len(llm.value.items) > 0
        /\ (llm.status # 0 /\ ~ResponseOk(llm.status)) => llm.cause = "not ok"
        /\ (llm.result = "parts: [..]" /\ ~JsonParses(llm.text)) => llm.cause = "parse"
        /\ llm.result \in LlmResults \ {"parts: [..]", ""} =>
              llm.cause \in {"json threw", "structure"}

\* The LLM answered text that does not parse, and the call resolved to the
\* static list of the catch block.
C7_Witness ==
  /\ llm.pc = "settled" /\ llm.cause = "parse"
  /\ llm.outcome = "resolved" /\ llm.value.items = FallbackError

----------------------------------------------------------------------------
(* Properties of the Tasks page                                            *)

DayOf(t) == t \div TicksPerDay

\* The Saturday that ends the week of day d.
SaturdayOf(d) == CHOOSE s \in d..(d + 6) : (s + 4) % 7 = 6

\* The task is of the selected project (if any) and due from the day of the
\* clock up to the Saturday of its week.
DueThisWeek(task, currentProject, now) ==
  /\ currentProject = NULL \/ task.project_id = currentProject
  /\ task.due_date # NULL
  /\ DayOf(task.due_date) >= DayOf(now)
  /\ DayOf(task.due_date) <= SaturdayOf(DayOf(now))

\* C6 as stated: the this-week view shows exactly the tasks (of the selected
\* project, if one is selected) whose due day lies from today up to the
\* Saturday of the current week, both inclusive.
C6_ThisWeekFromTodayToSaturday ==
  (page.pc = "mounted" /\ page.activeTab = "this-week") =>
     FilteredTasks =
        SelectSeq(PageTasks, LAMBDA t : DueThisWeek(t, page.currentProject, page.now))

\* What holds of the this-week view: it is the stated one while the clock is
\* on the day the page was mounted.
C6_ThisWeekOnMountDay ==
  (page.pc = "mounted" /\ DayOf(page.now) = DayOf(page.today)) =>
     C6_ThisWeekFromTodayToSaturday

\* The this-week view of a project shows tasks on a day later than the day
\* the page was mounted.
C6_Witness ==
  /\ page.pc = "mounted" /\ page.activeTab = "this-week"
  /\ page.currentProject # NULL
  /\ DayOf(page.now) > DayOf(page.today)
  /\ Len(FilteredTasks) > 0

----------------------------------------------------------------------------
(* Properties of the React Query hooks                                     *)

\* The step in which a refetch that an invalidation started completes with a
\* list.
RefetchCompletes ==
  /\ rq.fetching /\ ~rq'.fetching
  /\ rq.trigger = "invalidate"
  /\ ~rq'.error

C5_SuccessInvalidates ==
  \A m \in net \ net' :
     (m.dir = "down" /\ m.kind = "mutation" /\ ResponseOk(m.status)) =>
        /\ rq'.invalidated /\ rq'.fetching /\ rq'.gen = rq.gen + 1
        /\ QueryRequest(rq'.gen) \in net'

\* The list such a refetch brings is the server's list unless the server has
\* applied a write since it answered the refetch.
C5_RefetchedListIsServed ==
  (RefetchCompletes /\ rq'.servedVer = rq'.ver) => rq'.data = ServerList'

\* No request or response is in flight, the last fetch succeeded, and it was
\* started by an invalidation.
Settled ==
  /\ net = {}
  /\ ~rq.fetching /\ ~rq.error
  /\ rq.trigger = "invalidate" /\ rq.fetched

----------------------------------------------------------------------------
(* Properties of the user sync and of the bodies the routers accept        *)

\* C11: a request that is in a router handler, or was answered by one, has a
\* users row whose id is its req.userId.
C11_UserRowBeforeRouter ==
  /\ \A c \in DOMAIN conns :
        conns[c].pc \in HandlerPcs => conns[c].userId \in db.users
  /\ (RouterResponse /\ out.req.handler) => out.req.userId \in db.users

\* A signed-in request is parked in a router handler.
C11_Witness ==
  \E c \in DOMAIN conns :
    conns[c].pc \in HandlerPcs /\ conns[c].userId \in Users

\* A tasks handler answered a create or update whose body has project_id 0
\* and, for a create, a title; no query threw and the row of an update was
\* found.
ProjectIdZeroAnswered ==
  /\ RouterResponse
  /\ out.req.handler
  /\ out.req.res = "tasks"
  /\ out.req.method \in {"POST", "PUT"}
  /\ out.req.body.project_id = 0
  /\ out.req.method = "POST" => ~FalsyStr(out.req.body.title)
  /\ out.req.status \notin {404, 500}

\* C12: a task create or update with project_id 0 succeeds and the task it
\* returns has no project.
C12_ProjectIdZeroStoredAsNull ==
  ProjectIdZeroAnswered =>
    /\ out.req.status \in {200, 201}
    /\ \A row \in out.req.rows : row.project_id = NULL

\* A task create with a title and project_id 0 has been answered.
C12_Witness == ProjectIdZeroAnswered /\ out.req.method = "POST"

\* C13: no stored task or note has an empty or missing title.
C13_StoredTitleNotEmpty ==
  \A row \in db.tasks \cup db.notes : ~FalsyStr(row.title)

\* An update of a task or note that carries a title has been applied.
C13_Witness ==
  /\ RouterResponse
  /\ out.req.res \in {"tasks", "notes"}
  /\ out.req.method = "PUT"
  /\ out.req.body.title # UNDEFSTR
  /\ out.req.status = 200

\* A router handler answered a PUT whose body has none of the updatable
\* fields.
PutWithoutFields(o) ==
  /\ o # NoOut
  /\ o.req.res \in Resources
  /\ o.req.handler
  /\ o.req.method = "PUT"
  /\ UpdateFields(o.req) = {}

C14_Status == PutWithoutFields(out) => out.req.status = 400

C14_RowKept ==
  (out = NoOut /\ PutWithoutFields(out')) => \A res \in Resources : db'[res] = db[res]

\* C14: a PUT whose body contains none of the updatable fields is answered
\* 400, and the step that answers it leaves every row, updated_at included,
\* as it was.
C14_NoFieldsIs400 == []C14_Status /\ [][C14_RowKept]_vars

\* The PUT without fields addressed a row of the requester, and was refused.
C14_Witness ==
  /\ PutWithoutFields(out)
  /\ out.req.status = 400
  /\ Target(db, out.req.res, out.req.id, out.req.userId) # {}

----------------------------------------------------------------------------
(* Adding a task: the due date from the form to the list the page filters. *)
(* A date is an instant in ticks; an object is a record whose DOMAIN is    *)
(* its keys.                                                               *)

\* The due date the user picks: none, or an instant.
DueIn == {NULL} \cup (0 .. LastTick)

\* o[key] in JavaScript: undefined when the object has no such key.
Get(o, key) == IF key \in DOMAIN o THEN o[key] ELSE UNDEF

\* x || null for a date string: undefined and null give null.
OrNull(x) == IF x \in {UNDEF, NULL} THEN NULL ELSE x

AddIdle ==
  [body |-> [title |-> "a"], pc |-> "form", picked |-> NULL,
   row |-> [title |-> "a"], taskData |-> [title |-> "a"], tasks |-> <<>>]

AddOnly == UNCHANGED <<db, conns, out, net, rq, page, call, llm, hook, heur>>

\* Tasks.tsx handleAddTask: due_date: dueDate?.toISOString() || null
HandleAddTask(dueDate) ==
  /\ add.pc = "form"
  /\ add' = [add EXCEPT !.pc = "createTask", !.picked = dueDate,
                        !.taskData = [due_date |-> OrNull(dueDate), title |-> "a"]]
  /\ AddOnly

\* App.tsx handleQuickAddTask: normalizedDueDate.setHours(0, 0, 0, 0), then
\* dueDate: normalizedDueDate?.toISOString() || null
HandleQuickAddTask(dueDate) ==
  LET normalizedDueDate == IF dueDate = NULL THEN NULL ELSE StartOfDay(dueDate)
  IN  /\ add.pc = "form"
      /\ add' = [add EXCEPT !.pc = "createTask", !.picked = normalizedDueDate,
                            !.taskData = [dueDate |-> OrNull(normalizedDueDate),
                                          title |-> "a"]]
      /\ AddOnly

\* useTasksApi().createTask: body: JSON.stringify(taskData)
CreateTask ==
  /\ add.pc = "createTask"
  /\ add' = [add EXCEPT !.pc = "post", !.body = add.taskData]
  /\ AddOnly

\* lib/tasks.ts taskApi.createTask: due_date: task.due_date || null
TaskApiCreateTask ==
  /\ add.pc = "createTask"
  /\ add' = [add EXCEPT !.pc = "post",
                        !.body = [due_date |-> OrNull(Get(add.taskData, "due_date")),
                                  title |-> "a"]]
  /\ AddOnly

\* tasks.ts router.post('/'): const { ..., dueDate, ... } = req.body; INSERT
\* INTO tasks (..., dueDate, ...) VALUES (..., dueDate || null, ...) RETURNING
\* *. PostgreSQL folds the unquoted column name of initDb to duedate, the key
\* of the returned row. ok = FALSE: the query throws, the handler answers 500.
PostTask(ok) ==
  /\ add.pc = "post"
  /\ add' = IF ok
            THEN [add EXCEPT !.pc = "created",
                             !.row = [duedate |-> OrNull(Get(add.body, "dueDate")),
                                      title |-> Get(add.body, "title")]]
            ELSE [add EXCEPT !.pc = "rejected"]
  /\ AddOnly

\* useTasks addTask: setTasks(prevTasks => [...prevTasks, newTask])
AddTaskSettles ==
  /\ add.pc = "created"
  /\ add' = [add EXCEPT !.pc = "listed", !.tasks = Append(@, add.row)]
  /\ AddOnly

AddInit ==
  /\ db = EmptyDb
  /\ ServerUnused
  /\ net = Unused /\ rq = Unused /\ page = Unused /\ call = Unused /\ llm = Unused
  /\ hook = Unused /\ heur = Unused
  /\ add = AddIdle

AddNext ==
  \/ \E dueDate \in DueIn : HandleAddTask(dueDate)
  \/ \E dueDate \in DueIn : HandleQuickAddTask(dueDate)
  \/ CreateTask
  \/ TaskApiCreateTask
  \/ \E ok \in BOOLEAN : PostTask(ok)
  \/ AddTaskSettles

SpecAdd == AddInit /\ [][AddNext]_vars

----------------------------------------------------------------------------
(* Properties of adding a task                                             *)

\* C15: the task created from a form entry is stored with the due date the
\* client supplied, and task.due_date of the task in the client's list, the
\* field the page filters on, is that due date.
C15_DueDateKept ==
  add.pc = "listed" =>
    /\ add.row.duedate = add.picked
    /\ OrNull(Get(add.tasks[1], "due_date")) = add.picked

\* A task with a due date has been created and is in the client's list.
C15_Witness == add.pc = "listed" /\ add.picked # NULL

----------------------------------------------------------------------------
(* hooks/useApi.ts, hand-written: the state of one hook (useTasks; the     *)
(* mutations of useProjects and useNotes have the same shape) and its      *)
(* mutations in flight. The server's verdict on a mutation is an input.    *)

\* Mutations started in one behaviour.
MaxCalls == 3

\* The error member of the body of a non-OK response: absent (or the body is
\* not JSON), empty, or the handler's text.
ErrorBodies == {UNDEFSTR, "", "Task not found or unauthorized."}

\* client.ts: errorData = { error: 'An unknown error occurred', ...errorBody },
\* throw new Error(errorData.error || 'API request failed')
ErrorMessage(errorBody) ==
  LET error == IF errorBody = UNDEFSTR THEN "An unknown error occurred" ELSE errorBody
  IN  IF FalsyStr(error) THEN "API request failed" ELSE error

\* The id the server gives the row of the n-th call.
NewId(n) == 2 + n

\* The tasks the hook holds once fetchTasks has settled.
HookLists == {<<>>, <<[id |-> 1, title |-> "a"]>>,
              <<[id |-> 1, title |-> "a"], [id |-> 2, title |-> "b"]>>}

HookOnly == UNCHANGED <<db, conns, out, net, rq, page, call, llm, add, heur>>

\* The hook with one more mutation at its await: the request is in flight.
Called(h, kind, id, title) ==
  [h EXCEPT !.issued = @ + 1,
            !.calls = @ \cup {[id |-> id, kind |-> kind, n |-> h.issued + 1,
                               title |-> title]}]

\* addTask(taskData): await createTask(taskData)
AddTask(title) ==
  /\ hook.issued < MaxCalls
  /\ hook' = Called(hook, "add", UNDEF, title)
  /\ HookOnly

\* updateTaskById(id, updates): await updateTask(id, updates)
UpdateTaskById(id, title) ==
  /\ hook.issued < MaxCalls
  /\ hook' = Called(hook, "update", id, title)
  /\ HookOnly

\* deleteTaskById(id): await deleteTask(id)
DeleteTaskById(id) ==
  /\ hook.issued < MaxCalls
  /\ hook' = Called(hook, "delete", id, UNDEFSTR)
  /\ HookOnly

\* duplicateTaskById(task): await duplicateTask(task)
DuplicateTaskById(i) ==
  /\ hook.issued < MaxCalls
  /\ i \in DOMAIN hook.tasks
  /\ hook' = Called(hook, "duplicate", hook.tasks[i].id, hook.tasks[i].title)
  /\ HookOnly

\* The state updater of the success branch: [...prevTasks, newTask],
\* prevTasks.map(task => task.id === updatedTask.id ? updatedTask : task),
\* prevTasks.filter(task => task.id !== id).
Updated(prevTasks, c, row) ==
  CASE c.kind \in {"add", "duplicate"} -> Append(prevTasks, row)
    [] c.kind = "update" ->
         [i \in DOMAIN prevTasks |->
            IF prevTasks[i].id = row.id THEN row ELSE prevTasks[i]]
    [] c.kind = "delete" -> SelectSeq(prevTasks, LAMBDA task : task.id # c.id)

\* The row of a 200 or 201 response (a 204 has none: row is not read).
ReturnedRow(c) ==
  [id |-> IF c.kind \in {"add", "duplicate"} THEN NewId(c.n) ELSE c.id,
   title |-> c.title]

\* The server reports success: the await resolves, setTasks runs, the
\* mutation returns.
MutationResolves(c) ==
  /\ c \in hook.calls
  /\ hook' = [hook EXCEPT !.calls = @ \ {c},
                          !.tasks = Updated(@, c, ReturnedRow(c)),
                          !.settled = [message |-> "", n |-> c.n, ok |-> TRUE,
                                       outcome |-> "returned"]]
  /\ HookOnly

\* A catch block that sets the error and returns.
CatchSwallow(h, c, message) ==
  [h EXCEPT !.calls = @ \ {c},
            !.error = message,
            !.settled = [message |-> message, n |-> c.n, ok |-> FALSE,
                         outcome |-> "returned"]]

\* catch (error): setTasksError(error.message || "Failed to ..."), toast,
\* throw error
HookCatch(h, c, message) ==
  [h EXCEPT !.calls = @ \ {c},
            !.error = IF FalsyStr(message) THEN "Failed to " \o c.kind ELSE message,
            !.settled = [message |-> message, n |-> c.n, ok |-> FALSE,
                         outcome |-> "thrown"]]

\* The server answers non-OK: authenticatedFetch throws, the await rejects.
MutationRejects(c, errorBody) ==
  /\ c \in hook.calls
  /\ hook' = HookCatch(hook, c, ErrorMessage(errorBody))
  /\ HookOnly

HookInit ==
  /\ db = EmptyDb
  /\ ServerUnused
  /\ net = Unused /\ rq = Unused /\ page = Unused /\ call = Unused /\ llm = Unused
  /\ add = Unused /\ heur = Unused
  /\ \E tasks \in HookLists :
       hook = [calls |-> {}, error |-> NULLSTR, issued |-> 0,
               settled |-> [message |-> "", n |-> 0, ok |-> TRUE, outcome |-> "none"],
               tasks |-> tasks]

HookNext ==
  \/ AddTask("c")
  \/ \E id \in 1..2 : UpdateTaskById(id, "c")
  \/ \E id \in 1..2 : DeleteTaskById(id)
  \/ \E i \in 1..2 : DuplicateTaskById(i)
  \/ \E c \in hook.calls : MutationResolves(c)
  \/ \E c \in hook.calls, errorBody \in ErrorBodies : MutationRejects(c, errorBody)

SpecHook == HookInit /\ [][HookNext]_vars

----------------------------------------------------------------------------
(* Properties of the hand-written hooks                                    *)

\* A mutation settles in this step.
Settles == hook'.settled # hook.settled

C16_RejectedKeepsList ==
  (Settles /\ ~hook'.settled.ok) =>
     /\ hook'.tasks = hook.tasks
     /\ hook'.error = hook'.settled.message
     /\ hook'.error \notin {"", NULLSTR, UNDEFSTR}
     /\ hook'.settled.outcome = "thrown"

C16_ChangeOnlyOnSuccess ==
  hook'.tasks # hook.tasks => Settles /\ hook'.settled.ok

\* C16: a mutation the server rejects leaves the list as it was, records the
\* error message and rethrows; the list changes only in the step in which a
\* mutation the server accepted settles.
C16_RejectionLeavesList ==
  [][C16_RejectedKeepsList /\ C16_ChangeOnlyOnSuccess]_vars

\* A mutation on a list that is not empty was rejected while another is still
\* in flight.
C16_Witness ==
  /\ ~hook.settled.ok
  /\ hook.settled.outcome = "thrown"
  /\ hook.tasks # <<>>
  /\ hook.calls # {}

----------------------------------------------------------------------------
(* utils/aiSuggestions.ts: the heuristic generateTaskSuggestions. A title  *)
(* is the sequence of words title.split(' ') yields.                       *)

\* Tasks in the list passed to one call.
MaxTasks == 2

TitlesIn ==
  {<<"Email">>, <<"meeting", "call">>, <<"project", "report">>, <<"review">>,
   <<"check", "the", "mail">>, <<"">>}

\* String.prototype.toLowerCase on the words of TitlesIn.
ToLowerCase(word) == IF word = "Email" THEN "email" ELSE word

\* const timeSuggestions: TimePattern[]
TimePatterns ==
  <<[suggestions |-> <<"Plan your day", "Review today's calendar", "Check emails",
                       "Morning workout", "Prepare for morning meeting">>,
     timeRangeEnd |-> 9, timeRangeStart |-> 6],
    [suggestions |-> <<"Focus on important work tasks", "Schedule meetings",
                       "Work on high priority items", "Follow up on emails",
                       "Complete project milestones">>,
     timeRangeEnd |-> 12, timeRangeStart |-> 9],
    [suggestions |-> <<"Take a lunch break", "Review morning progress",
                       "Stretch and move around", "Mindfulness session">>,
     timeRangeEnd |-> 14, timeRangeStart |-> 12],
    [suggestions |-> <<"Tackle remaining work tasks", "Team collaboration session",
                       "Project review", "Prepare end of day report",
                       "Clean up inbox">>,
     timeRangeEnd |-> 17, timeRangeStart |-> 14],
    [suggestions |-> <<"Exercise", "Plan tomorrow", "Personal project time",
                       "Cook dinner", "Family time">>,
     timeRangeEnd |-> 20, timeRangeStart |-> 17],
    [suggestions |-> <<"Evening reading", "Prepare for tomorrow", "Meditation",
                       "Journal your thoughts", "Tech-free time">>,
     timeRangeEnd |-> 23, timeRangeStart |-> 20]>>

\* analyzeTaskPatterns(tasks): the words longer than 3 letters are counted in
\* a Record, whose entries come in insertion order; the sort by count is
\* stable; the first three are the top keywords.
AnalyzeTaskPatterns(tasks) ==
  LET RECURSIVE Words(_)
      Words(i) ==
        IF i > Len(tasks) THEN <<>>
        ELSE SelectSeq([k \in DOMAIN tasks[i] |-> ToLowerCase(tasks[i][k])],
                       LAMBDA word : Len(word) > 3) \o Words(i + 1)
      words == Words(1)
      Count(word) == Cardinality({i \in DOMAIN words : words[i] = word})
      \* Object.entries(keywords): each word at its first occurrence
      entries == SelectSeq([i \in DOMAIN words |-> [at |-> i, word |-> words[i]]],
                           LAMBDA e : \A j \in 1..(e.at - 1) : words[j] # e.word)
      \* .sort((a, b) => b[1] - a[1])
      Before(a, b) ==
        \/ Count(a.word) > Count(b.word)
        \/ Count(a.word) = Count(b.word) /\ a.at < b.at
      Rank(e) == Cardinality({i \in DOMAIN entries : Before(entries[i], e)})
      \* .slice(0, 3).map(entry => entry[0])
      topKeywords == {entries[i].word : i \in {i \in DOMAIN entries : Rank(entries[i]) < 3}}
  IN  (IF "email" \in topKeywords \/ "mail" \in topKeywords
       THEN <<"Check new emails", "Reply to important emails">> ELSE <<>>)
      \o (IF "meeting" \in topKeywords \/ "call" \in topKeywords
          THEN <<"Prepare for next meeting", "Follow up on meeting action items">>
          ELSE <<>>)
      \o (IF "project" \in topKeywords \/ "report" \in topKeywords
          THEN <<"Update project status", "Work on project deliverables">> ELSE <<>>)
      \o (IF "review" \in topKeywords \/ "check" \in topKeywords
          THEN <<"Review team progress", "Quality check on deliverables">> ELSE <<>>)

\* Array.prototype.slice(0, n)
Slice(s, n) == SubSeq(s, 1, IF Len(s) < n THEN Len(s) ELSE n)

\* The orders [...suggestions].sort(() => 0.5 - Math.random()) can leave n
\* elements in: a comparator that is not consistent gives an order the engine
\* chooses, any permutation.
ShuffleOrders ==
  [n \in 0..5 |-> {f \in [1..n -> 1..n] : \A i, j \in 1..n : f[i] = f[j] => i = j}]

\* timeSuggestions.find(pattern => currentHour >= pattern.timeRangeStart &&
\* currentHour < pattern.timeRangeEnd): its suggestions, <<>> when undefined.
RelevantSuggestions(currentHour) ==
  LET R == {i \in DOMAIN TimePatterns :
              /\ currentHour >= TimePatterns[i].timeRangeStart
              /\ currentHour < TimePatterns[i].timeRangeEnd}
  IN  IF R = {} THEN <<>>
      ELSE TimePatterns[CHOOSE i \in R : \A j \in R : i <= j].suggestions

\* getTimeSuggestions without the default of the hours no pattern covers.
GetTimeSuggestionsNoDefault(currentHour, order) ==
  LET suggestions == RelevantSuggestions(currentHour)
  IN  Slice([i \in DOMAIN suggestions |-> suggestions[order[i]]], 3)

\* getTimeSuggestions(), at the hour currentHour, the shuffle giving order.
GetTimeSuggestions(currentHour, order) ==
  LET suggestions == RelevantSuggestions(currentHour)
  IN  IF suggestions # <<>>
      THEN Slice([i \in DOMAIN suggestions |-> suggestions[order[i]]], 3)
      ELSE <<"Plan your day", "Review your tasks", "Take a break">>

\* generateTaskSuggestions(tasks): [...new Set([...patternSuggestions,
\* ...timeSuggestions])].slice(0, 5); a Set keeps the first of equal elements,
\* in insertion order.
GenerateTaskSuggestionsHeuristic(tasks, currentHour, order) ==
  LET all == AnalyzeTaskPatterns(tasks) \o GetTimeSuggestions(currentHour, order)
      kept == SelectSeq([i \in DOMAIN all |-> [at |-> i, text |-> all[i]]],
                        LAMBDA e : \A j \in 1..(e.at - 1) : all[j] # e.text)
      allSuggestions == [i \in DOMAIN kept |-> kept[i].text]
  IN  Slice(allSuggestions, 5)

HeurOnly == UNCHANGED <<db, conns, out, net, rq, page, call, llm, add, hook>>

\* The dashboard calls generateTaskSuggestions(tasks).
SuggestTasks(order) ==
  /\ heur.pc = "idle"
  /\ order \in ShuffleOrders[Len(RelevantSuggestions(heur.currentHour))]
  /\ heur' = [heur EXCEPT
                !.pc = "returned",
                !.result = GenerateTaskSuggestionsHeuristic(heur.tasks,
                                                            heur.currentHour, order)]
  /\ HeurOnly

HeurInit ==
  /\ db = EmptyDb
  /\ ServerUnused
  /\ net = Unused /\ rq = Unused /\ page = Unused /\ call = Unused /\ llm = Unused
  /\ add = Unused /\ hook = Unused
  /\ \E tasks \in UNION {[1..n -> TitlesIn] : n \in 0..MaxTasks}, currentHour \in 0..23 :
       heur = [currentHour |-> currentHour, pc |-> "idle", result |-> <<>>,
               tasks |-> tasks]

HeurNext == \E order \in UNION {ShuffleOrders[n] : n \in 0..5} : SuggestTasks(order)

SpecHeur == HeurInit /\ [][HeurNext]_vars

----------------------------------------------------------------------------
(* Properties of the heuristic suggestions                                 *)

\* C17: the suggestions returned, for every task list and every hour, are at
\* most 5, are pairwise different, and are not empty.
C17_UpToFiveDistinct ==
  heur.pc = "returned" =>
    /\ Len(heur.result) \in 1..5
    /\ \A i, j \in DOMAIN heur.result : heur.result[i] = heur.result[j] => i = j

\* The keywords of the tasks gave suggestions, and with those of the hour
\* there were more than five: five were returned.
C17_Witness ==
  /\ heur.pc = "returned"
  /\ Len(AnalyzeTaskPatterns(heur.tasks)) = 4
  /\ Len(heur.result) = 5

====
